---- MODULE Spec2Model ----
(***************************************************************************)
(* A model of octobanana/asio-chat: the chat server (server/src/main.cc:   *)
(* chat_room, chat_session, chat_server, main) and the chat client         *)
(* (client/src/main.cc: chat_client and the command loop of main).         *)
(*                                                                         *)
(* Every completion handler of the single-threaded io_context is one       *)
(* action.  The two directions of a TCP connection are the sequences       *)
(* inbox (client to server, not yet read) and wire (server to client).     *)
(* The server listens on one port, so there is one chat_server and one     *)
(* chat_room.                                                              *)
(*                                                                         *)
(* Spec is the server with its peers as the environment: a peer puts       *)
(* frames on its connection and closes it.  SpecPipe is the server with    *)
(* chat_client and its command loop at the other end of every connection.  *)
(***************************************************************************)
EXTENDS Integers, Sequences, FiniteSets, TLC

\* ------------------------------------------------------------------ bounds
NSess == 2          \* connections the server accepts in one run
MaxSends == 3       \* frames the peers send in one run of Spec
MaxInbox == 1       \* frames sent on a connection and not yet read, in Spec
PipeSends == 2      \* lines the clients' users type in one run of SpecPipe
HistSends == 130    \* chat lines typed in one run of SpecHist

Sess == 1..NSess

\* ------------------------------------------------------- program constants
\* server/src/main.cc:28 user_db
user_db == [admin |-> "password", alice |-> "hunter2",
            rabbit |-> "verylate", madhatter |-> "teaparty"]

\* server/src/main.cc:126
max_recent_msgs == 128

\* server/src/main.cc:245, 257, 270: the three notices of the server
StrSuccess == "Success: logged in"
StrAuthError == "Error: incorrect user or pass, disconnecting..."
StrPleaseAuth == "Error: please authenticate with '/auth <user> <pass>'"

\* ------------------------------------------------------------------ inputs
InPass == {"hunter2", "verylate"}           \* passwords typed after /auth
Texts == {"hi"}                             \* texts typed as chat lines

\* A frame on the wire: hdr says whether the fixed-width header decodes to an
\* in-range body length, wf whether the body is the text of a JSON object,
\* and j is that object: its string members, Absent for a member it lacks.
Absent == "<absent>"
NoJson == [type |-> Absent, user |-> Absent, pass |-> Absent, to |-> Absent,
           from |-> Absent, msg |-> Absent, str |-> Absent]
Frame(j) == [hdr |-> TRUE, wf |-> TRUE, j |-> j]

\* a chat_message as its constructor leaves it: an empty body
NoMessage == [hdr |-> TRUE, wf |-> FALSE, j |-> NoJson]

\* the messages client main builds (client/src/main.cc:274, 312, 346)
AuthFrame(user, pass) ==
  Frame([NoJson EXCEPT !.type = "auth", !.user = user, !.pass = pass])
PrvRequest(name, to, text) ==
  Frame([NoJson EXCEPT !.type = "prv", !.user = name, !.to = to,
                       !.msg = text])
MsgFrame(name, text) ==
  Frame([NoJson EXCEPT !.type = "msg", !.user = name, !.msg = text])

\* Frames that only a peer other than chat_client puts on a connection: a
\* bad header, a body that is no JSON object with a type, objects with
\* another member missing, and a type the server does not know.
RawFrames ==
  { [hdr |-> FALSE, wf |-> TRUE, j |-> NoJson],
    [hdr |-> TRUE, wf |-> FALSE, j |-> NoJson],
    Frame([NoJson EXCEPT !.type = "auth", !.user = "alice"]),
    Frame([NoJson EXCEPT !.type = "prv", !.msg = "hi"]),
    Frame([NoJson EXCEPT !.type = "srv", !.str = "x"]) }

VARIABLES
  running,        \* server: io_context.run() has not been left
  rpos,           \* chat_session: which async_read is outstanding
  read_msg_,      \* chat_session::read_msg_
  auth_,          \* chat_session::auth_
  user_,          \* chat_session::user_
  write_msgs,     \* chat_session::write_msgs_
  wstate,         \* chat_session: state of the outstanding async_write
  shut,           \* chat_session: socket_.shutdown(shutdown_send) was done
  recent_msgs_,   \* chat_room::recent_msgs_
  participants_,  \* chat_room::participants_ (name -> session)
  inbox,          \* frames sent by the peer, not yet read by the session
  peer,           \* the peer's end of the connection: "up" or "closed"
  sent,           \* history: frames the peers of Spec have sent
  wire,           \* frames the session has transmitted to the client
  csock,          \* chat_client::socket_
  cmain,          \* client main: in the command loop, or past it
  cname,          \* client main: name
  cposted,        \* client: handlers posted to the io_context, not yet run
  cwrite_msgs,    \* chat_client::write_msgs_
  cwstate,        \* chat_client: state of the outstanding async_write
  cwire,          \* frames the client has transmitted to the server
  nreads,         \* chat_session: async_read operations outstanding
  nwrites,        \* chat_session: async_write operations outstanding
  iofail,         \* history: a handler of the session got an error code
  enq,            \* history: frames handed to chat_session::deliver
  cenq,           \* history: frames handed to chat_client::write
  broadcasts      \* history: messages handed to chat_room::deliver

svars == <<running, rpos, read_msg_, auth_, user_, write_msgs, wstate, shut,
           recent_msgs_, participants_, wire, iofail, enq, broadcasts,
           nreads, nwrites>>
cvars == <<csock, cmain, cname, cposted, cwrite_msgs, cwstate, cwire, cenq>>
net == <<inbox, peer, sent>>
vars == <<svars, cvars, net>>

\* ----------------------------------------------------------------- helpers
Range(f) == {f[x] : x \in DOMAIN f}

RECURSIVE SumLen(_, _)
SumLen(f, S) ==
  IF S = {} THEN 0
  ELSE LET x == CHOOSE y \in S : TRUE IN Len(f[x]) + SumLen(f, S \ {x})

EmptyMap == [n \in {} |-> 0]

\* ------------------------------------------------------------- chat_room
contains_never(name) == FALSE

\* chat_room::contains
contains(name) == name \in DOMAIN participants_

emplace_nothing(P, name, s) == P

\* participants_.emplace(name, participant): no effect on a key that exists
emplace(P, name, s) ==
  IF name \in DOMAIN P THEN P
  ELSE [n \in DOMAIN P \cup {name} |-> IF n = name THEN s ELSE P[n]]

leave_everyone(P, name) == EmptyMap

\* chat_room::leave: participants_.erase(name)
leave(P, name) == [n \in DOMAIN P \ {name} |-> P[n]]

\* recent_msgs_ after chat_room::deliver(msg): emplace_back, then pop_front
\* while size() > max_recent_msgs
RECURSIVE PopWhile(_)
PopWhile(q) == IF Len(q) > max_recent_msgs THEN PopWhile(Tail(q)) ELSE q
PushRecent_back(q, f) ==
  IF Len(q) >= max_recent_msgs THEN Append(SubSeq(q, 1, Len(q) - 1), f)
  ELSE Append(q, f)
PushRecent(q, f) == PopWhile(Append(q, f))

Recipients_first(P) ==
  IF DOMAIN P = {} THEN {} ELSE {P[CHOOSE n \in DOMAIN P : TRUE]}

\* the sessions chat_room::deliver(msg) calls deliver on
Recipients(P) == Range(P)

\* the frame chat_room::deliver(to, from, msg) builds with jres.dump()
PrvFrame(from, msg) ==
  Frame([NoJson EXCEPT !.type = "prv", !.from = from, !.msg = msg])

PrvRecipients_all(P, to) == Range(P)

\* the session chat_room::deliver(to, from, msg) delivers to, if any
PrvRecipients(P, to) == IF to \in DOMAIN P THEN {P[to]} ELSE {}

\* --------------------------------------------------------- chat_session
SrvFrame(str) == Frame([NoJson EXCEPT !.type = "srv", !.str = str])

\* do_write: async_write on a socket shut down for sending fails at once;
\* otherwise the operation is outstanding.
StartWrite(s) == IF shut[s] THEN "err" ELSE "pending"

Deliver_unguarded(adds) ==
  /\ write_msgs' = [t \in Sess |-> write_msgs[t] \o adds[t]]
  /\ wstate' = [t \in Sess |->
       IF adds[t] # <<>> THEN StartWrite(t) ELSE wstate[t]]
  /\ nwrites' = [t \in Sess |-> nwrites[t] + Len(adds[t])]
  /\ enq' = [t \in Sess |-> enq[t] \o adds[t]]

\* chat_session::deliver, once for every frame of adds[t], in order, on every
\* session t: append to write_msgs_, do_write() if the queue was empty.
Deliver(adds) ==
  /\ write_msgs' = [t \in Sess |-> write_msgs[t] \o adds[t]]
  /\ wstate' = [t \in Sess |->
       IF write_msgs[t] = <<>> /\ adds[t] # <<>> THEN StartWrite(t)
       ELSE wstate[t]]
  /\ nwrites' = [t \in Sess |->
       IF write_msgs[t] = <<>> /\ adds[t] # <<>> THEN nwrites[t] + 1
       ELSE nwrites[t]]
  /\ enq' = [t \in Sess |-> enq[t] \o adds[t]]

Only_everyone(s, fs) == [t \in Sess |-> fs]

\* the frames fs for the session s that calls deliver on itself
Only(s, fs) == [t \in Sess |-> IF t = s THEN fs ELSE <<>>]
ToAll(S, f) == [t \in Sess |-> IF t \in S THEN <<f>> ELSE <<>>]

\* Json::parse(req) and the get<std::string>() of the members the branch
\* reads throw unless the body is a JSON object that has them.
Has(f, k) == f.wf /\ f.j[k] # Absent
Type(f) == IF Has(f, "type") THEN f.j.type ELSE ""
Throws(s, f) ==
  \/ ~Has(f, "type")
  \/ /\ auth_[s] /\ Type(f) = "prv"
     /\ ~(Has(f, "to") /\ Has(f, "msg"))
  \/ /\ ~auth_[s] /\ Type(f) = "auth"
     /\ ~(Has(f, "user") /\ Has(f, "pass"))

\* the condition of server/src/main.cc:238
CredentialsOk(user, pass) ==
  user \in DOMAIN user_db /\ user_db[user] = pass

AuthOk(user, pass) == CredentialsOk(user, pass) /\ ~contains(user)

\* A session object lives while a handler or the room holds a shared_ptr to
\* it; its socket is closed when it is destroyed.
Destroyed(s) ==
  /\ rpos[s] = "stopped"
  /\ wstate[s] = "idle"
  /\ s \notin Range(participants_)

Init ==
  /\ running = TRUE
  /\ rpos = [s \in Sess |-> "none"]
  /\ read_msg_ = [s \in Sess |-> NoMessage]
  /\ iofail = [s \in Sess |-> FALSE]
  /\ auth_ = [s \in Sess |-> FALSE]
  /\ user_ = [s \in Sess |-> ""]
  /\ write_msgs = [s \in Sess |-> <<>>]
  /\ wstate = [s \in Sess |-> "idle"]
  /\ shut = [s \in Sess |-> FALSE]
  /\ recent_msgs_ = <<>>
  /\ participants_ = EmptyMap
  /\ inbox = [s \in Sess |-> <<>>]
  /\ peer = [s \in Sess |-> "up"]
  /\ sent = 0
  /\ wire = [s \in Sess |-> <<>>]
  /\ csock = [s \in Sess |-> "connecting"]
  /\ cmain = [s \in Sess |-> "loop"]
  /\ cname = [s \in Sess |-> ""]
  /\ cposted = [s \in Sess |-> <<>>]
  /\ cwrite_msgs = [s \in Sess |-> <<>>]
  /\ cwstate = [s \in Sess |-> "idle"]
  /\ cwire = [s \in Sess |-> <<>>]
  /\ enq = [s \in Sess |-> <<>>]
  /\ cenq = [s \in Sess |-> <<>>]
  /\ broadcasts = <<>>
  /\ nreads = [s \in Sess |-> 0]
  /\ nwrites = [s \in Sess |-> 0]

\* ---------------------------------------------------------- chat_server
\* do_accept's handler: make_shared<chat_session>(...)->start(), do_accept().
\* Connections take the slots 1, 2, ... in the order they are accepted.
Accept(s) ==
  /\ running
  /\ rpos[s] = "none"
  /\ \A t \in Sess : t < s => rpos[t] # "none"
  /\ rpos' = [rpos EXCEPT ![s] = "header"]
  /\ nreads' = [nreads EXCEPT ![s] = @ + 1]
  /\ UNCHANGED <<running, read_msg_, auth_, user_, write_msgs, wstate, shut,
                 recent_msgs_, participants_, wire, iofail, enq, broadcasts,
                 nwrites>>
  /\ UNCHANGED <<cvars, net>>

\* main: an exception thrown by a handler leaves io_context.run() and is
\* caught in main, which returns: the servers, the room and every session
\* are destroyed and every socket is closed.
Crash ==
  /\ running' = FALSE
  /\ rpos' = [t \in Sess |-> IF rpos[t] = "none" THEN "none" ELSE "stopped"]
  /\ wstate' = [t \in Sess |-> "idle"]
  /\ participants_' = EmptyMap
  /\ nreads' = [t \in Sess |-> 0]
  /\ nwrites' = [t \in Sess |-> 0]
  /\ UNCHANGED <<auth_, user_, write_msgs, shut, recent_msgs_, wire, iofail,
                 enq, broadcasts>>

\* --------------------------------------------- chat_session: read pipeline
ReadHeader_lenient(s) ==
  /\ running
  /\ rpos[s] = "header"
  /\ inbox[s] # <<>>
  /\ rpos' = [rpos EXCEPT ![s] = "body"]
  /\ nreads' = [nreads EXCEPT ![s] = (@ - 1) + 1]
  /\ UNCHANGED <<running, read_msg_, auth_, user_, write_msgs, wstate, shut,
                 recent_msgs_, participants_, wire, iofail, enq, broadcasts,
                 nwrites>>
  /\ UNCHANGED <<cvars, net>>

\* do_read_header's handler, no error: decode_header() decides.  A header
\* that does not decode has been read off the connection; what the peer
\* sends after it stays unread.
ReadHeader(s) ==
  /\ running
  /\ rpos[s] = "header"
  /\ inbox[s] # <<>>
  /\ IF Head(inbox[s]).hdr
     THEN /\ rpos' = [rpos EXCEPT ![s] = "body"]
          /\ nreads' = [nreads EXCEPT ![s] = (@ - 1) + 1]
          /\ UNCHANGED <<participants_, inbox>>
     ELSE /\ rpos' = [rpos EXCEPT ![s] = "stopped"]
          /\ nreads' = [nreads EXCEPT ![s] = @ - 1]
          /\ participants_' = leave(participants_, user_[s])
          /\ inbox' = [inbox EXCEPT ![s] = Tail(inbox[s])]
  /\ UNCHANGED <<running, read_msg_, auth_, user_, write_msgs, wstate, shut,
                 recent_msgs_, wire, iofail, enq, broadcasts, nwrites>>
  /\ UNCHANGED <<cvars, peer, sent>>

\* do_read_header's handler with an error code: the peer has closed or
\* reset the connection
ReadHeaderFail(s) ==
  /\ running
  /\ rpos[s] = "header"
  /\ peer[s] = "closed"
  /\ rpos' = [rpos EXCEPT ![s] = "stopped"]
  /\ participants_' = leave(participants_, user_[s])
  /\ iofail' = [iofail EXCEPT ![s] = TRUE]
  /\ nreads' = [nreads EXCEPT ![s] = @ - 1]
  /\ UNCHANGED <<running, read_msg_, auth_, user_, write_msgs, wstate, shut,
                 recent_msgs_, wire, enq, broadcasts, nwrites>>
  /\ UNCHANGED <<cvars, net>>

\* do_read_body's handler with an error code
ReadBodyFail(s) ==
  /\ running
  /\ rpos[s] = "body"
  /\ peer[s] = "closed"
  /\ rpos' = [rpos EXCEPT ![s] = "stopped"]
  /\ participants_' = leave(participants_, user_[s])
  /\ iofail' = [iofail EXCEPT ![s] = TRUE]
  /\ nreads' = [nreads EXCEPT ![s] = @ - 1]
  /\ UNCHANGED <<running, read_msg_, auth_, user_, write_msgs, wstate, shut,
                 recent_msgs_, wire, enq, broadcasts, nwrites>>
  /\ UNCHANGED <<cvars, net>>

BodyRead_newest(s) ==
  /\ running
  /\ rpos[s] = "body"
  /\ inbox[s] # <<>>
  /\ ~Throws(s, Head(inbox[s]))
  /\ inbox' = [inbox EXCEPT ![s] = SubSeq(inbox[s], 1, Len(inbox[s]) - 1)]
  /\ read_msg_' = [read_msg_ EXCEPT ![s] = inbox[s][Len(inbox[s])]]
  /\ rpos' = [rpos EXCEPT ![s] = "header"]
  /\ nreads' = [nreads EXCEPT ![s] = (@ - 1) + 1]
  /\ UNCHANGED <<running, iofail, cvars, peer, sent>>

\* what every branch of do_read_body's handler that does not throw shares:
\* the body is consumed and do_read_header() is called
BodyRead(s) ==
  /\ running
  /\ rpos[s] = "body"
  /\ inbox[s] # <<>>
  /\ ~Throws(s, Head(inbox[s]))
  /\ inbox' = [inbox EXCEPT ![s] = Tail(inbox[s])]
  /\ read_msg_' = [read_msg_ EXCEPT ![s] = Head(inbox[s])]
  /\ rpos' = [rpos EXCEPT ![s] = "header"]
  /\ nreads' = [nreads EXCEPT ![s] = (@ - 1) + 1]
  /\ UNCHANGED <<running, iofail, cvars, peer, sent>>

\* do_read_body's handler: Json::parse or a get<std::string>() throws
BodyThrow(s) ==
  /\ running
  /\ rpos[s] = "body"
  /\ inbox[s] # <<>>
  /\ Throws(s, Head(inbox[s]))
  /\ Crash
  /\ inbox' = [inbox EXCEPT ![s] = Tail(inbox[s])]
  /\ read_msg_' = [read_msg_ EXCEPT ![s] = Head(inbox[s])]
  /\ UNCHANGED <<cvars, peer, sent>>

\* auth_, type == "msg": room_.deliver(read_msg_)
BodyChat(s) ==
  /\ BodyRead(s)
  /\ auth_[s]
  /\ Type(Head(inbox[s])) = "msg"
  /\ recent_msgs_' = PushRecent(recent_msgs_, Head(inbox[s]))
  /\ broadcasts' = Append(broadcasts, Head(inbox[s]))
  /\ Deliver(ToAll(Recipients(participants_), Head(inbox[s])))
  /\ UNCHANGED <<auth_, user_, shut, participants_, wire>>

\* auth_, type == "prv": room_.deliver(to, user_, msg)
BodyPrv(s) ==
  /\ BodyRead(s)
  /\ auth_[s]
  /\ Type(Head(inbox[s])) = "prv"
  /\ Deliver(ToAll(PrvRecipients(participants_, Head(inbox[s]).j.to),
                   PrvFrame(user_[s], Head(inbox[s]).j.msg)))
  /\ UNCHANGED <<auth_, user_, shut, recent_msgs_, participants_, wire,
                 broadcasts>>

BodyIgnored_relogin(s) ==
  /\ BodyRead(s)
  /\ auth_[s]
  /\ Type(Head(inbox[s])) \notin {"msg", "prv"}
  /\ user_' = [user_ EXCEPT ![s] = Head(inbox[s]).j.user]
  /\ UNCHANGED <<auth_, write_msgs, wstate, shut, recent_msgs_,
                 participants_, wire, enq, broadcasts, nwrites>>

\* auth_, any other type: no branch is taken
BodyIgnored(s) ==
  /\ BodyRead(s)
  /\ auth_[s]
  /\ Type(Head(inbox[s])) \notin {"msg", "prv"}
  /\ UNCHANGED <<auth_, user_, write_msgs, wstate, shut, recent_msgs_,
                 participants_, wire, enq, broadcasts, nwrites>>

\* !auth_, type == "auth", the condition of line 238 holds: deliver the
\* success notice, then room_.join(user_, shared_from_this())
BodyAuthOk(s) ==
  /\ BodyRead(s)
  /\ ~auth_[s]
  /\ Type(Head(inbox[s])) = "auth"
  /\ AuthOk(Head(inbox[s]).j.user, Head(inbox[s]).j.pass)
  /\ auth_' = [auth_ EXCEPT ![s] = TRUE]
  /\ user_' = [user_ EXCEPT ![s] = Head(inbox[s]).j.user]
  /\ participants_' = emplace(participants_, Head(inbox[s]).j.user, s)
  /\ Deliver(Only(s, <<SrvFrame(StrSuccess)>> \o recent_msgs_))
  /\ UNCHANGED <<shut, recent_msgs_, wire, broadcasts>>

\* !auth_, type == "auth", the condition fails: deliver the error notice,
\* then do_close().  The async_write that deliver starts may hand the frame
\* to the socket at once (sp) or be left outstanding.
BodyAuthFail(s) ==
  /\ BodyRead(s)
  /\ ~auth_[s]
  /\ Type(Head(inbox[s])) = "auth"
  /\ ~AuthOk(Head(inbox[s]).j.user, Head(inbox[s]).j.pass)
  /\ enq' = [enq EXCEPT ![s] = Append(enq[s], SrvFrame(StrAuthError))]
  /\ write_msgs' = [write_msgs EXCEPT
                      ![s] = Append(write_msgs[s], SrvFrame(StrAuthError))]
  /\ \E sp \in BOOLEAN :
       IF write_msgs[s] # <<>>
       THEN /\ sp
            /\ UNCHANGED <<wstate, wire>>
       ELSE IF shut[s]
       THEN /\ sp
            /\ wstate' = [wstate EXCEPT ![s] = "err"]
            /\ UNCHANGED wire
       ELSE IF sp
       THEN /\ wstate' = [wstate EXCEPT ![s] = "ok"]
            /\ wire' = [wire EXCEPT
                          ![s] = Append(wire[s], SrvFrame(StrAuthError))]
       ELSE /\ wstate' = [wstate EXCEPT ![s] = "pending"]
            /\ UNCHANGED wire
  /\ nwrites' = [nwrites EXCEPT
                   ![s] = IF write_msgs[s] = <<>> THEN @ + 1 ELSE @]
  /\ shut' = [shut EXCEPT ![s] = TRUE]
  /\ UNCHANGED <<auth_, user_, recent_msgs_, participants_, broadcasts>>

\* !auth_, any other type: deliver the 'please authenticate' notice
BodyPleaseAuth(s) ==
  /\ BodyRead(s)
  /\ ~auth_[s]
  /\ Type(Head(inbox[s])) # "auth"
  /\ Deliver(Only(s, <<SrvFrame(StrPleaseAuth)>>))
  /\ UNCHANGED <<auth_, user_, shut, recent_msgs_, participants_, wire,
                 broadcasts>>

\* -------------------------------------------- chat_session: write pipeline
\* the outstanding async_write hands front() to the socket, or fails: always
\* after shutdown_send; possibly when the peer has closed
WriteTransfer(s) ==
  /\ running
  /\ wstate[s] = "pending"
  /\ \E ok \in BOOLEAN :
       /\ ok => ~shut[s]
       /\ ~ok => shut[s] \/ peer[s] = "closed"
       /\ wstate' = [wstate EXCEPT ![s] = IF ok THEN "ok" ELSE "err"]
       /\ wire' = [wire EXCEPT
            ![s] = IF ok THEN Append(wire[s], Head(write_msgs[s])) ELSE wire[s]]
  /\ UNCHANGED <<running, rpos, read_msg_, auth_, user_, write_msgs, shut,
                 recent_msgs_, participants_, iofail, enq, broadcasts,
                 nreads, nwrites>>
  /\ UNCHANGED <<cvars, net>>

WriteDone_nopop(s) ==
  /\ running
  /\ wstate[s] = "ok"
  /\ wstate' = [wstate EXCEPT ![s] = StartWrite(s)]
  /\ UNCHANGED <<running, rpos, read_msg_, auth_, user_, write_msgs, shut,
                 recent_msgs_, participants_, wire, iofail, enq, broadcasts,
                 nreads, nwrites>>
  /\ UNCHANGED <<cvars, net>>

\* do_write's handler, no error: pop_front, do_write() if not empty
WriteDone(s) ==
  /\ running
  /\ wstate[s] = "ok"
  /\ write_msgs' = [write_msgs EXCEPT ![s] = Tail(write_msgs[s])]
  /\ wstate' = [wstate EXCEPT
       ![s] = IF Tail(write_msgs[s]) # <<>> THEN StartWrite(s) ELSE "idle"]
  /\ nwrites' = [nwrites EXCEPT
       ![s] = IF Tail(write_msgs[s]) # <<>> THEN (@ - 1) + 1 ELSE @ - 1]
  /\ UNCHANGED <<running, rpos, read_msg_, auth_, user_, shut, recent_msgs_,
                 participants_, wire, iofail, enq, broadcasts, nreads>>
  /\ UNCHANGED <<cvars, net>>

\* do_write's handler with an error code: room_.leave(user_)
WriteFail(s) ==
  /\ running
  /\ wstate[s] = "err"
  /\ wstate' = [wstate EXCEPT ![s] = "idle"]
  /\ participants_' = leave(participants_, user_[s])
  /\ iofail' = [iofail EXCEPT ![s] = TRUE]
  /\ nwrites' = [nwrites EXCEPT ![s] = @ - 1]
  /\ UNCHANGED <<running, rpos, read_msg_, auth_, user_, write_msgs, shut,
                 recent_msgs_, wire, enq, broadcasts, nreads>>
  /\ UNCHANGED <<cvars, net>>

\* ------------------------------------------------------------ chat_client
WriteItem(f) == [op |-> "write", f |-> f]
CloseItem == [op |-> "close", f |-> NoMessage]

\* do_connect's handler, no error
Connect(s) ==
  /\ csock[s] = "connecting"
  /\ csock' = [csock EXCEPT ![s] = "open"]
  /\ UNCHANGED <<cmain, cname, cposted, cwrite_msgs, cwstate, cwire, cenq>>
  /\ UNCHANGED <<svars, net>>

\* One pass of main's command loop that ends in client.write(msg): write
\* posts its handler; the loop is left, and client.close() posted, when
\* connected is then found false.
MainWrite(s, f, name) ==
  /\ cmain[s] = "loop"
  /\ SumLen(cenq, Sess) < PipeSends
  /\ cname' = [cname EXCEPT ![s] = name]
  /\ cenq' = [cenq EXCEPT ![s] = Append(cenq[s], f)]
  /\ cposted' = [cposted EXCEPT ![s] =
       cposted[s] \o <<WriteItem(f)>>
                  \o (IF csock[s] = "closed" THEN <<CloseItem>> ELSE <<>>)]
  /\ cmain' = [cmain EXCEPT
       ![s] = IF csock[s] = "closed" THEN "done" ELSE "loop"]
  /\ UNCHANGED <<csock, cwrite_msgs, cwstate, cwire>>
  /\ UNCHANGED <<svars, net>>

\* main: "/auth <user> <pass>" sets name and sends the auth message
MainAuth(s, user, pass) == MainWrite(s, AuthFrame(user, pass), user)

\* main: "/priv <user> <text>"
MainPriv(s, to, text) == MainWrite(s, PrvRequest(cname[s], to, text), cname[s])

\* main: any other line is a message to the room
MainChat(s, text) == MainWrite(s, MsgFrame(cname[s], text), cname[s])

\* main: "/quit" or the end of the input: client.close()
MainQuit(s) ==
  /\ cmain[s] = "loop"
  /\ cmain' = [cmain EXCEPT ![s] = "done"]
  /\ cposted' = [cposted EXCEPT ![s] = Append(cposted[s], CloseItem)]
  /\ UNCHANGED <<csock, cname, cwrite_msgs, cwstate, cwire, cenq>>
  /\ UNCHANGED <<svars, net>>

\* chat_client::do_write: async_write on a socket that is not open fails
CStartWrite(s) == IF csock[s] = "open" THEN "pending" ELSE "err"

\* the handler chat_client::write posted: push_back, do_write() if the
\* queue was empty
RunWrite(s) ==
  /\ cposted[s] # <<>>
  /\ Head(cposted[s]).op = "write"
  /\ cposted' = [cposted EXCEPT ![s] = Tail(cposted[s])]
  /\ cwrite_msgs' = [cwrite_msgs EXCEPT
       ![s] = Append(cwrite_msgs[s], Head(cposted[s]).f)]
  /\ cwstate' = [cwstate EXCEPT
       ![s] = IF cwrite_msgs[s] = <<>> THEN CStartWrite(s) ELSE cwstate[s]]
  /\ UNCHANGED <<csock, cmain, cname, cwire, cenq>>
  /\ UNCHANGED <<svars, net>>

\* chat_client::do_close: connected_.store(false), socket_.close(), which
\* cancels the outstanding write
do_close(s) ==
  /\ csock' = [csock EXCEPT ![s] = "closed"]
  /\ peer' = [peer EXCEPT ![s] = "closed"]
  /\ cwstate' = [cwstate EXCEPT
       ![s] = IF cwstate[s] = "pending" THEN "err" ELSE cwstate[s]]

\* the handler chat_client::close posted
RunClose(s) ==
  /\ cposted[s] # <<>>
  /\ Head(cposted[s]).op = "close"
  /\ cposted' = [cposted EXCEPT ![s] = Tail(cposted[s])]
  /\ do_close(s)
  /\ UNCHANGED <<cmain, cname, cwrite_msgs, cwire, cenq>>
  /\ UNCHANGED <<svars, inbox, sent>>

\* the server's end of connection s is closed, or shut down for sending
ServerEof(s) ==
  \/ ~running
  \/ shut[s]
  \/ rpos[s] # "none" /\ Destroyed(s)

\* the client's outstanding async_write hands front() to the socket
CWriteTransfer(s) ==
  /\ cwstate[s] = "pending"
  /\ cwstate' = [cwstate EXCEPT ![s] = "ok"]
  /\ cwire' = [cwire EXCEPT ![s] = Append(cwire[s], Head(cwrite_msgs[s]))]
  /\ inbox' = [inbox EXCEPT ![s] = Append(inbox[s], Head(cwrite_msgs[s]))]
  /\ UNCHANGED <<csock, cmain, cname, cposted, cwrite_msgs, cenq>>
  /\ UNCHANGED <<svars, peer, sent>>

\* chat_client::do_write's handler, no error: pop_front, do_write() if the
\* queue is not empty
CWriteDone(s) ==
  /\ cwstate[s] = "ok"
  /\ cwrite_msgs' = [cwrite_msgs EXCEPT ![s] = Tail(cwrite_msgs[s])]
  /\ cwstate' = [cwstate EXCEPT
       ![s] = IF Tail(cwrite_msgs[s]) # <<>> THEN CStartWrite(s) ELSE "idle"]
  /\ UNCHANGED <<csock, cmain, cname, cposted, cwire, cenq>>
  /\ UNCHANGED <<svars, net>>

\* chat_client::do_write's handler with an error code: do_close()
CWriteFail(s) ==
  /\ cwstate[s] = "err"
  /\ csock' = [csock EXCEPT ![s] = "closed"]
  /\ peer' = [peer EXCEPT ![s] = "closed"]
  /\ cwstate' = [cwstate EXCEPT ![s] = "idle"]
  /\ UNCHANGED <<cmain, cname, cposted, cwrite_msgs, cwire, cenq>>
  /\ UNCHANGED <<svars, inbox, sent>>

\* chat_client::do_read_header's handler with an error code (the server's
\* end of the stream): do_close()
CReadFail(s) ==
  /\ csock[s] = "open"
  /\ ServerEof(s)
  /\ do_close(s)
  /\ UNCHANGED <<cmain, cname, cposted, cwrite_msgs, cwire, cenq>>
  /\ UNCHANGED <<svars, inbox, sent>>

\* ------------------------------------------------------------ the peers
InFrames ==
  {AuthFrame("alice", "hunter2"), AuthFrame("rabbit", "verylate"),
   AuthFrame("alice", "verylate"), AuthFrame("eve", "hunter2")}
  \cup {MsgFrame("alice", x) : x \in Texts}
  \cup {PrvRequest("", "alice", x) : x \in Texts}
  \cup RawFrames

\* the peer of the accepted connection s sends the frame f
PeerSend(s, f) ==
  /\ rpos[s] # "none"
  /\ peer[s] = "up"
  /\ Len(inbox[s]) < MaxInbox
  /\ sent' = sent + 1
  /\ inbox' = [inbox EXCEPT ![s] = Append(inbox[s], f)]
  /\ UNCHANGED <<svars, cvars, peer>>

\* the peer of connection s closes it
PeerClose(s) ==
  /\ rpos[s] # "none"
  /\ peer[s] = "up"
  /\ peer' = [peer EXCEPT ![s] = "closed"]
  /\ UNCHANGED <<svars, cvars, inbox, sent>>

\* ----------------------------------------------------------- specification
ReadBody(s) ==
  \/ BodyThrow(s)
  \/ BodyChat(s)
  \/ BodyPrv(s)
  \/ BodyIgnored(s)
  \/ BodyAuthOk(s)
  \/ BodyAuthFail(s)
  \/ BodyPleaseAuth(s)

ServerStep(s) ==
  \/ Accept(s)
  \/ ReadHeader(s)
  \/ ReadHeaderFail(s)
  \/ ReadBody(s)
  \/ ReadBodyFail(s)
  \/ WriteTransfer(s)
  \/ WriteDone(s)
  \/ WriteFail(s)

PeerStep(s) ==
  \/ \E f \in InFrames : sent < MaxSends /\ PeerSend(s, f)
  \/ PeerClose(s)

Next == \E s \in Sess : ServerStep(s) \/ PeerStep(s)

Spec == Init /\ [][Next]_vars

\* The room's history at its capacity: connection 1 logs in as alice and
\* broadcasts numbered lines, connection 2 logs in as rabbit at any moment;
\* either peer may close.  No write completes (the peers read slowly).
HistFrame(s) ==
  IF auth_[s] THEN MsgFrame("alice", ToString(Len(broadcasts) + 1))
  ELSE IF s = 1 THEN AuthFrame("alice", "hunter2")
  ELSE AuthFrame("rabbit", "verylate")

HistSend(s) ==
  /\ Len(broadcasts) < HistSends
  /\ inbox[s] = <<>>
  /\ auth_[s] => s = 1
  /\ PeerSend(s, HistFrame(s))

NextHist ==
  \E s \in Sess :
    \/ Accept(s)
    \/ ReadHeader(s)
    \/ ReadHeaderFail(s)
    \/ BodyAuthOk(s)
    \/ BodyChat(s)
    \/ HistSend(s)
    \/ PeerClose(s)

SpecHist == Init /\ [][NextHist]_vars

\* The server with chat_client at the other end of every connection.
PipeServerStep(s) ==
  \/ Accept(s)
  \/ ReadHeader(s)
  \/ ReadHeaderFail(s)
  \/ ReadBodyFail(s)
  \/ BodyChat(s)
  \/ BodyPrv(s)
  \/ BodyIgnored(s)
  \/ BodyAuthOk(s)
  \/ BodyAuthFail(s)
  \/ BodyPleaseAuth(s)
  \/ WriteTransfer(s)
  \/ WriteDone(s)
  \/ WriteFail(s)

MainStep(s) ==
  \/ \E p \in InPass : MainAuth(s, "alice", p)
  \/ \E x \in Texts : MainPriv(s, "alice", x)
  \/ \E x \in Texts : MainChat(s, x)
  \/ MainQuit(s)

ClientStep(s) ==
  \/ Connect(s)
  \/ MainStep(s)
  \/ RunWrite(s)
  \/ RunClose(s)
  \/ CWriteTransfer(s)
  \/ CWriteDone(s)
  \/ CWriteFail(s)
  \/ CReadFail(s)

NextPipe == \E s \in Sess : PipeServerStep(s) \/ ClientStep(s)

SpecPipe == Init /\ [][NextPipe]_vars

\* ------------------------------------------------------------------ claims
\* the step is do_read_body's handler of session s running to its end
Dispatched(s) == rpos[s] = "body" /\ rpos'[s] = "header"
\* the message that handler dispatches
Req(s) == Head(inbox[s])
Last(q) == q[Len(q)]
InRoom(s) == s \in Range(participants_)

\* C1: every name in the room maps to the one session authenticated under
\* it, and an Auth with valid credentials for a name that is in the room is
\* rejected: the error notice is enqueued, the session is not authenticated
\* and not joined, and the participants are exactly as before.
C1_Rejected(s) ==
  /\ Dispatched(s) /\ ~auth_[s] /\ Type(Req(s)) = "auth"
  /\ CredentialsOk(Req(s).j.user, Req(s).j.pass)
  /\ Req(s).j.user \in DOMAIN participants_
C1_NameUniqueness ==
  /\ [](\A n \in DOMAIN participants_ :
          auth_[participants_[n]] /\ user_[participants_[n]] = n)
  /\ [][\A s \in Sess : C1_Rejected(s) =>
          /\ participants_' = participants_
          /\ ~auth_'[s] /\ ~InRoom(s)'
          /\ write_msgs'[s] = Append(write_msgs[s], SrvFrame(StrAuthError))]_vars
C1_Witness ==
  \E s, t \in Sess :
    /\ s # t /\ ~auth_[s] /\ ~InRoom(s)
    /\ read_msg_[s] = AuthFrame("alice", "hunter2")
    /\ Last(enq[s]) = SrvFrame(StrAuthError)
    /\ "alice" \in DOMAIN participants_ /\ participants_["alice"] = t

\* C2: a Chat dispatched by an authenticated session appends one copy of
\* the message to the queue of every participant and nothing to any other
\* queue: as many frames as the room has participants.
C2_ChatStep(s) == Dispatched(s) /\ auth_[s] /\ Type(Req(s)) = "msg"
C2_FanOut ==
  [][\A s \in Sess : C2_ChatStep(s) =>
       /\ \A t \in Sess :
            write_msgs'[t] = IF InRoom(t) THEN Append(write_msgs[t], Req(s))
                             ELSE write_msgs[t]
       /\ SumLen(write_msgs', Sess)
            = SumLen(write_msgs, Sess) + Cardinality(DOMAIN participants_)]_vars
C2_Witness ==
  \E s, t \in Sess :
    /\ s # t /\ InRoom(s) /\ InRoom(t) /\ auth_[s]
    /\ Type(read_msg_[s]) = "msg"
    /\ Last(enq[s]) = read_msg_[s] /\ Last(enq[t]) = read_msg_[s]

\* C3: the history never holds more than max_recent_msgs (128) messages, it
\* is the newest of all the messages broadcast so far in their order, and a
\* session that logs in is replayed exactly that, after the success notice.
C3_Newest(b) ==
  LET n == IF Len(b) < max_recent_msgs THEN Len(b) ELSE max_recent_msgs
  IN [i \in 1..n |-> b[Len(b) - n + i]]
C3_Joined(s) == Dispatched(s) /\ ~auth_[s] /\ auth_'[s]
C3_BoundedHistory ==
  /\ [](/\ Len(recent_msgs_) <= max_recent_msgs
        /\ recent_msgs_ = C3_Newest(broadcasts))
  /\ [][\A s \in Sess : C3_Joined(s) =>
          write_msgs'[s] = write_msgs[s] \o <<SrvFrame(StrSuccess)>>
                                         \o C3_Newest(broadcasts)]_vars
C3_Witness ==
  /\ Len(broadcasts) > max_recent_msgs
  /\ auth_[2] /\ InRoom(2)
  /\ Len(enq[2]) = max_recent_msgs + 1
  /\ enq[2][2] # broadcasts[1]
  /\ enq[2][2].j.msg = ToString(Len(broadcasts) - max_recent_msgs + 1)
  /\ Last(enq[2]) = Last(broadcasts)

\* C4: a Private dispatched by the authenticated session of u appends one
\* prv message with from = u to the queue of the session in the room under
\* the name to, and nothing to any other queue; nothing at all when no
\* participant has that name.  The history is unchanged.
C4_PrvStep(s) == Dispatched(s) /\ auth_[s] /\ Type(Req(s)) = "prv"
C4_IsPrivate(g, from, msg) ==
  g.hdr /\ g.wf /\ g.j.type = "prv" /\ g.j.from = from /\ g.j.msg = msg
C4_PrivateDelivery ==
  [][\A s \in Sess : C4_PrvStep(s) =>
       /\ recent_msgs_' = recent_msgs_
       /\ \A t \in Sess :
            IF /\ Req(s).j.to \in DOMAIN participants_
               /\ participants_[Req(s).j.to] = t
            THEN /\ Len(write_msgs'[t]) = Len(write_msgs[t]) + 1
                 /\ SubSeq(write_msgs'[t], 1, Len(write_msgs[t])) = write_msgs[t]
                 /\ C4_IsPrivate(Last(write_msgs'[t]), user_[s], Req(s).j.msg)
            ELSE write_msgs'[t] = write_msgs[t]]_vars
C4_Witness ==
  \E s, t \in Sess :
    /\ s # t /\ auth_[s] /\ InRoom(s) /\ InRoom(t)
    /\ Type(read_msg_[s]) = "prv" /\ read_msg_[s].j.to = user_[t]
    /\ C4_IsPrivate(Last(enq[t]), user_[s], read_msg_[s].j.msg)
    /\ \A i \in 1..Len(enq[s]) : enq[s][i].j.type # "prv"

\* C5: on every connection, in both directions, the frames transmitted so
\* far are the first of the frames enqueued, in the order they were
\* enqueued: none twice, none skipped, none out of order.
C5_IsPrefix(p, q) == Len(p) <= Len(q) /\ p = SubSeq(q, 1, Len(p))
C5_WriteOrdering ==
  \A s \in Sess :
    /\ C5_IsPrefix(wire[s], enq[s])
    /\ C5_IsPrefix(cwire[s], cenq[s])
C5_Witness ==
  \E s \in Sess :
    /\ Len(cwire[s]) >= 2 /\ cwire[s][1] # cwire[s][2]
    /\ Len(wire[s]) >= 2 /\ wire[s][1] # wire[s][2]
    /\ wire[s] = enq[s] /\ cwire[s] = cenq[s]

\* C6: a Chat that the room stores and fans out carries the authenticated
\* name of the session that sent it as its user.
C6_AuthoritativeName ==
  [][\A s \in Sess : C2_ChatStep(s) =>
       /\ Last(recent_msgs_').j.user = user_[s]
       /\ \A t \in Sess :
            InRoom(t) => Last(write_msgs'[t]).j.user = user_[s]]_vars

\* C7: once a session has had a failed Auth (do_close was called) it is
\* never authenticated, never in the room, and dispatches nothing more.
C7_ClosedIsTerminal ==
  [][\A s \in Sess : shut[s] =>
       ~auth_'[s] /\ ~InRoom(s)' /\ ~Dispatched(s)]_vars

\* C8: every frame that was in the queue when do_close was called, the
\* error notice (the last of them) included, is transmitted.  Stated of the
\* states where it can no longer become true: the session's writes have
\* come to rest while the server runs and the peer is still there.
C8_NoticeAt(s) ==
  CHOOSE i \in 1..Len(enq[s]) :
    /\ enq[s][i] = SrvFrame(StrAuthError)
    /\ \A k \in 1..(i - 1) : enq[s][k] # SrvFrame(StrAuthError)
C8_NoticeDrains ==
  \A s \in Sess :
    (running /\ shut[s] /\ wstate[s] = "idle" /\ peer[s] = "up") =>
      /\ Len(wire[s]) >= C8_NoticeAt(s)
      /\ SubSeq(wire[s], 1, C8_NoticeAt(s)) = SubSeq(enq[s], 1, C8_NoticeAt(s))

\* C9: a payload that does not parse as a known message ends at most its
\* own connection: the server keeps running and every other session keeps
\* its reads, its authentication and its place in the room.
C9_ParseFailure(s) ==
  /\ running /\ rpos[s] = "body" /\ inbox[s] # <<>>
  /\ Throws(s, Head(inbox[s]))
  /\ inbox'[s] = Tail(inbox[s])
C9_FailureIsolation ==
  [][\A s \in Sess : C9_ParseFailure(s) =>
       /\ running'
       /\ \A t \in Sess \ {s} :
            /\ rpos'[t] = rpos[t]
            /\ auth_'[t] = auth_[t]
            /\ InRoom(t) => InRoom(t)']_vars

\* C10: after a read or write I/O failure a session is not in the room,
\* dispatches nothing more and starts no further read or write.
C10_ReadStarted(s) == rpos'[s] # rpos[s] /\ rpos'[s] \in {"header", "body"}
C10_WriteStarted(s) ==
  \/ wstate[s] = "idle" /\ wstate'[s] # "idle"
  \/ wstate[s] = "ok" /\ wstate'[s] \in {"pending", "err"}
C10_Teardown ==
  /\ [](\A s \in Sess : iofail[s] => ~InRoom(s))
  /\ [][\A s \in Sess : iofail[s] =>
          ~Dispatched(s) /\ ~C10_ReadStarted(s) /\ ~C10_WriteStarted(s)]_vars

\* C11: a departure never disturbs the room's broadcasts.  A handler of s
\* that ends one of its chains (a bad header, a read error, a write error)
\* removes no participant other than s; and a Chat broadcast after it puts
\* exactly one copy on the queue of every session that is in the room and
\* nothing on the queue of a session that has been removed.
C11_Departure(s) ==
  /\ running'
  /\ \/ rpos[s] \in {"header", "body"} /\ rpos'[s] = "stopped"
     \/ wstate[s] = "err" /\ wstate'[s] = "idle"
C11_OthersStay(s) ==
  \A n \in DOMAIN participants_ :
    participants_[n] # s =>
      n \in DOMAIN participants_' /\ participants_'[n] = participants_[n]
C11_DepartureSafety ==
  /\ [][\A s \in Sess : C11_Departure(s) => C11_OthersStay(s)]_vars
  /\ [][\A s \in Sess : C2_ChatStep(s) =>
          \A t \in Sess :
            IF InRoom(t)
            THEN write_msgs'[t] = Append(write_msgs[t], Req(s))
            ELSE write_msgs'[t] = write_msgs[t]]_vars

\* C12: a session that is not authenticated and dispatches a message whose
\* type is not "auth" gets exactly one 'please authenticate' notice appended
\* to its queue; it stays unauthenticated, and the participants, the history
\* and the queue of every other session are unchanged.
C12_GateStep(s) == Dispatched(s) /\ ~auth_[s] /\ Type(Req(s)) # "auth"
C12_UnauthenticatedGate ==
  [][\A s \in Sess : C12_GateStep(s) =>
       /\ write_msgs'[s] = Append(write_msgs[s], SrvFrame(StrPleaseAuth))
       /\ ~auth_'[s] /\ user_'[s] = user_[s]
       /\ participants_' = participants_
       /\ recent_msgs_' = recent_msgs_
       /\ \A t \in Sess \ {s} : write_msgs'[t] = write_msgs[t]]_vars
C12_Witness ==
  \E s, t \in Sess :
    /\ s # t /\ InRoom(t) /\ enq[t] = <<SrvFrame(StrSuccess)>>
    /\ ~auth_[s] /\ ~InRoom(s) /\ rpos[s] = "header"
    /\ Type(read_msg_[s]) \in {"msg", "prv", "srv"}
    /\ enq[s] = <<SrvFrame(StrPleaseAuth)>>
    /\ recent_msgs_ = <<>>

\* C13: an Auth with the credentials of user_db for a name that is not in
\* the room makes the session authenticated under that name and adds it to
\* the participants; its queue receives the success notice and then the
\* history, oldest first, and nothing else; no other queue changes, and
\* the history is unchanged.
C13_LoginStep(s) ==
  /\ Dispatched(s) /\ ~auth_[s] /\ Type(Req(s)) = "auth"
  /\ CredentialsOk(Req(s).j.user, Req(s).j.pass)
  /\ Req(s).j.user \notin DOMAIN participants_
C13_LoginSequence ==
  [][\A s \in Sess : C13_LoginStep(s) =>
       /\ auth_'[s] /\ user_'[s] = Req(s).j.user
       /\ DOMAIN participants_' = DOMAIN participants_ \cup {Req(s).j.user}
       /\ participants_'[Req(s).j.user] = s
       /\ \A n \in DOMAIN participants_ : participants_'[n] = participants_[n]
       /\ Len(write_msgs'[s]) = Len(write_msgs[s]) + 1 + Len(recent_msgs_)
       /\ \A i \in 1..Len(write_msgs[s]) : write_msgs'[s][i] = write_msgs[s][i]
       /\ write_msgs'[s][Len(write_msgs[s]) + 1] = SrvFrame(StrSuccess)
       /\ \A i \in 1..Len(recent_msgs_) :
            write_msgs'[s][Len(write_msgs[s]) + 1 + i] = recent_msgs_[i]
       /\ \A t \in Sess \ {s} : write_msgs'[t] = write_msgs[t]
       /\ recent_msgs_' = recent_msgs_]_vars
C13_Witness ==
  /\ auth_[2] /\ user_[2] = "rabbit" /\ InRoom(2) /\ InRoom(1)
  /\ Len(recent_msgs_) >= 3
  /\ enq[2] = <<SrvFrame(StrSuccess)>> \o recent_msgs_
  /\ enq[2][2].j.msg = "1" /\ enq[2][3].j.msg = "2" /\ enq[2][4].j.msg = "3"
  /\ Len(enq[1]) = 1 + Len(recent_msgs_)

\* C14: leave(name) for a name that is not in the room changes nothing, a
\* second leave(name) changes nothing more, and leave never touches the
\* history: so for every handler that ends a chain of a session with
\* room_.leave(user_), and for the second such handler of that session.
C14_Names == DOMAIN user_db \cup {"", "eve"}
C14_LeaveIdempotent ==
  /\ [](\A n \in C14_Names :
          /\ n \notin DOMAIN participants_ =>
                leave(participants_, n) = participants_
          /\ leave(leave(participants_, n), n) = leave(participants_, n))
  /\ [][\A s \in Sess : C11_Departure(s) =>
          /\ participants_' = leave(participants_, user_[s])
          /\ leave(participants_', user_[s]) = participants_'
          /\ recent_msgs_' = recent_msgs_
          /\ user_[s] \notin DOMAIN participants_ =>
                participants_' = participants_]_vars
C14_Witness ==
  \E s, t \in Sess :
    /\ s # t /\ InRoom(t)
    /\ auth_[s] /\ user_[s] \notin DOMAIN participants_
    /\ iofail[s] /\ peer[s] = "closed"
    /\ rpos[s] = "stopped"
    /\ wstate[s] = "idle" /\ nwrites[s] = 0 /\ write_msgs[s] # <<>>

\* C15: a session never has more than one async_write outstanding; a step
\* starts a write only when none is outstanding; and the handler of a
\* completed write pops the frame it sent before it starts the next write,
\* which it does only if a frame is left.
C15_Completed(s) == running' /\ wstate[s] = "ok" /\ wstate'[s] # "ok"
C15_SingleWriter ==
  /\ [](\A s \in Sess : nwrites[s] \in {0, 1})
  /\ [][\A s \in Sess : nwrites'[s] > nwrites[s] => nwrites[s] = 0]_vars
  /\ [][\A s \in Sess : C15_Completed(s) =>
          /\ write_msgs'[s] = Tail(write_msgs[s])
          /\ nwrites'[s] = IF write_msgs'[s] = <<>> THEN 0 ELSE 1]_vars
C15_Witness ==
  \E s \in Sess :
    /\ Len(wire[s]) >= 1 /\ Len(write_msgs[s]) >= 2
    /\ wire[s] \o write_msgs[s] = enq[s]
    /\ wstate[s] = "pending" /\ nwrites[s] = 1

\* C16: a session never has more than one async_read outstanding and starts
\* one only when none is outstanding; the frames the client has transmitted
\* and the session has not yet dispatched wait in the order they were
\* transmitted, and each dispatch takes the oldest of them: the k-th
\* message dispatched is the k-th message sent on the connection.
C16_Waiting(s) ==
  SubSeq(cwire[s], Len(cwire[s]) - Len(inbox[s]) + 1, Len(cwire[s]))
C16_SequentialReads ==
  /\ [](\A s \in Sess :
          /\ nreads[s] \in {0, 1}
          /\ Len(inbox[s]) <= Len(cwire[s])
          /\ inbox[s] = C16_Waiting(s))
  /\ [][\A s \in Sess : nreads'[s] > nreads[s] => nreads[s] = 0]_vars
  /\ [][\A s \in Sess : Dispatched(s) =>
          /\ read_msg_'[s] = cwire[s][Len(cwire[s]) - Len(inbox[s]) + 1]
          /\ inbox'[s] = Tail(inbox[s])
          /\ nreads'[s] = 1]_vars
C16_Witness ==
  \E s \in Sess :
    /\ Len(cwire[s]) = 2 /\ cwire[s][1] # cwire[s][2]
    /\ inbox[s] = <<>> /\ rpos[s] = "header" /\ nreads[s] = 1
    /\ read_msg_[s] = cwire[s][2]
    /\ enq[s] = <<SrvFrame(StrSuccess), cwire[s][2]>>

\* C17: an Auth dispatched by a session that is authenticated changes
\* neither its name nor its authentication, nor the participants, the
\* history or any queue, whatever the credentials; the session goes on to
\* read the next header.
C17_ReAuthStep(s) == Dispatched(s) /\ auth_[s] /\ Type(Req(s)) = "auth"
C17_ReAuthIgnored ==
  [][\A s \in Sess : C17_ReAuthStep(s) =>
       /\ auth_' = auth_ /\ user_' = user_
       /\ participants_' = participants_
       /\ recent_msgs_' = recent_msgs_
       /\ write_msgs' = write_msgs
       /\ rpos'[s] = "header" /\ nreads'[s] = 1]_vars
C17_Witness ==
  \E s \in Sess :
    /\ auth_[s] /\ user_[s] = "alice" /\ InRoom(s)
    /\ read_msg_[s] = AuthFrame("rabbit", "verylate")
    /\ rpos[s] = "header"
    /\ "rabbit" \notin DOMAIN participants_
    /\ enq[s] = <<SrvFrame(StrSuccess)>>

\* C18: when the header a session has read does not decode, the session is
\* not in the room afterwards, no body read is started for that header, and
\* from then on the session has no read outstanding: what the peer sends
\* later is never taken off the connection and never dispatched.
C18_BadHeader(s) ==
  /\ running' /\ rpos[s] = "header" /\ rpos'[s] # "header"
  /\ inbox[s] # <<>> /\ ~Head(inbox[s]).hdr
  /\ peer[s] = "up" \/ inbox'[s] # inbox[s]      \* not the read's failure
C18_FramingFatal ==
  /\ [][\A s \in Sess : C18_BadHeader(s) =>
          /\ rpos'[s] = "stopped" /\ nreads'[s] = 0
          /\ inbox'[s] = Tail(inbox[s])
          /\ ~InRoom(s)'
          /\ read_msg_'[s] = read_msg_[s]]_vars
  /\ [][\A s \in Sess : rpos[s] = "stopped" =>
          /\ rpos'[s] = "stopped" /\ nreads'[s] = 0
          /\ read_msg_'[s] = read_msg_[s]
          /\ Len(inbox'[s]) >= Len(inbox[s])
          /\ ~Dispatched(s)]_vars
C18_Witness ==
  \E s \in Sess :
    /\ running /\ ~iofail[s] /\ peer[s] = "up"
    /\ rpos[s] = "stopped" /\ nreads[s] = 0
    /\ auth_[s] /\ user_[s] = "alice" /\ ~InRoom(s)
    /\ read_msg_[s] = AuthFrame("alice", "hunter2")
    /\ inbox[s] = <<MsgFrame("alice", "hi")>>

\* C19: an entry name -> S leaves the room, or passes to another session,
\* only in a step in which a chain of S itself ends (a bad header, a read
\* error or a write error of S) or in which the server stops.
C19_OwnFailure(s) == ~running' \/ C11_Departure(s)
C19_OwnEntryOnly ==
  [][\A n \in DOMAIN participants_ :
       (n \notin DOMAIN participants_' \/ participants_'[n] # participants_[n])
         => C19_OwnFailure(participants_[n])]_vars

\* C20: while the server runs, a session's queue is non-empty exactly when
\* it has an async_write outstanding; the same for the client's queue.
C20_Server(s) == running => ((write_msgs[s] # <<>>) <=> (nwrites[s] > 0))
C20_Client(s) == (cwrite_msgs[s] # <<>>) <=> (cwstate[s] # "idle")
C20_QueueMeansWriting == \A s \in Sess : C20_Server(s) /\ C20_Client(s)

====
